---------------------------- MODULE Spec2Model ----------------------------
(***************************************************************************)
(* Model of lcmgen's Rust backend (src/lcmgen/emit_rust.c) and of the code *)
(* it synthesizes: the generated hash() of a struct, and the generated     *)
(* encode / decode / size of a struct, as functions of the struct's member *)
(* list.                                                                   *)
(***************************************************************************)
EXTENDS Integers, Sequences, FiniteSets, TLC

VARIABLES
    \* ---- generated hash() (emit_impl_message_hash) ----
    structs,    \* the schema: struct name -> [hash, members (type names)]
    stack,      \* call stack of running hash() functions
    done,       \* struct name -> [composed, published] of its returned calls
    result,     \* <<value>> returned by the outermost hash() call, or <<>>
    crashed,    \* the call stack was exhausted
    \* ---- generated encode() / size() / decode() ----
    lcm_struct, \* lcm_struct->members: sequence of [name, type, dims]
    self,       \* the instance: member name -> value
    pcE,        \* encode(): index of the member to encode next, 0 = returned
    out,        \* bytes written to the output stream (buffer: &mut Write)
    encRes,     \* what encode() returned: "none", "Ok" or "Err"
    wfailed,    \* a write to the output stream failed
    sz,         \* what size() returned, or -1
    pcD,        \* decode(): index of the statement to run next, 0 = not running
    input,      \* the bytes decode() was called on
    rd,         \* the reader: [inp: bytes not yet read, log: leaf decodes so far]
    env,        \* decode()'s local variables: member name -> decoded value
    decRes,     \* what decode() returned: "none", "Ok", "Err", or "NoBuild"
    decVal,     \* <<struct>> decode() returned, or <<>>
    \* ---- make_rust_type_name ----
    shortname,  \* typename->shortname: the identifier, a sequence of characters
    buf,        \* the buffer `result` points to, its terminating NUL included
    cpos,       \* position of the read pointer `c` in the buffer
    result_char,            \* position of the write pointer
    capitalize_next_char,   \* 1 or 0
    pcN,        \* "strip", "loop", "done", or "idle"
    type_name,  \* the C string returned
    \* ---- emit_struct_def: the field of one member ----
    cur_member, \* member: [membername, type, dimensions]
    dimd,       \* the loop variable d
    pcF,        \* "open", "type", "close", "end", "done", or "idle"
    line,       \* the characters written to f for the member
    \* ---- emit_rust ----
    gen_structs,  \* lcmgen->structs: sequence of [package, shortname]
    fs,           \* the file system: path -> content of the file
    pcG,          \* [phase, i, at]: the loop, its index, the position in it
    open_files,   \* the paths of the streams that are open, oldest first
    ret,          \* <<value>> returned by emit_rust, or <<>>
    events        \* the file operations so far: <<operation, path, ok>>

hashVars == <<structs, stack, done, result, crashed>>

codecVars == <<lcm_struct, self, pcE, out, encRes, wfailed, sz, pcD, input, rd, env,
               decRes, decVal>>

nameVars == <<shortname, buf, cpos, result_char, capitalize_next_char, pcN,
              type_name>>

fieldVars == <<cur_member, dimd, pcF, line>>

emitVars == <<gen_structs, fs, pcG, open_files, ret, events>>

genVars == <<nameVars, fieldVars, emitVars>>

vars == <<structs, stack, done, result, crashed,
          lcm_struct, self, pcE, out, encRes, wfailed, sz, pcD, input, rd, env,
          decRes, decVal,
          shortname, buf, cpos, result_char, capitalize_next_char, pcN,
          type_name, cur_member, dimd, pcF, line,
          gen_structs, fs, pcG, open_files, ret, events>>

-----------------------------------------------------------------------------
(* Bounds *)

\* most members a struct of the schema has
MaxMembers == 2

\* call-stack capacity, in frames, of the process running hash()
MaxDepth == 4

\* longest in-memory container of a variable dimension
MaxLen == 2

\* latest leaf write of one member at which the output stream may fail
MaxFailAt == 3

\* longest identifier given to make_rust_type_name
MaxIdLen == 6

\* most dimensions a member given to emit_struct_def has
MaxDims == 2

\* most structs a schema given to emit_rust holds
MaxStructs == 2

\* most failures of the file system during one run of emit_rust
MaxFaults == 1

-----------------------------------------------------------------------------
(* 64-bit unsigned words, as four 16-bit limbs, least significant first *)

Limb == 2^16

U64(l0, l1, l2, l3) == <<l0, l1, l2, l3>>

\* bit i (0 = least significant) of the word h
Bit(h, i) == (h[(i \div 16) + 1] \div (2^(i % 16))) % 2

\* u64::wrapping_add
wrapping_add(x, y) ==
    LET s0 == x[1] + y[1]
        s1 == x[2] + y[2] + (s0 \div Limb)
        s2 == x[3] + y[3] + (s1 \div Limb)
        s3 == x[4] + y[4] + (s2 \div Limb)
    IN  U64(s0 % Limb, s1 % Limb, s2 % Limb, s3 % Limb)

\* hash << 1 on u64: the top bit is shifted out
Shl1(h) ==
    U64((h[1] * 2) % Limb,
        ((h[2] * 2) % Limb) + (h[1] \div (Limb \div 2)),
        ((h[3] * 2) % Limb) + (h[2] \div (Limb \div 2)),
        ((h[4] * 2) % Limb) + (h[3] \div (Limb \div 2)))

\* hash >> 63 on u64: a logical shift
Shr63(h) == U64(h[4] \div (Limb \div 2), 0, 0, 0)

\* h & 1
And1(h) == U64(h[1] % 2, 0, 0, 0)

-----------------------------------------------------------------------------
(* The schema the hash functions are generated from *)

StructNames == {"A", "B", "C"}

PrimitiveNames == {"int8_t"}

lcm_is_primitive_type(tn) == tn \in PrimitiveNames

SeqsUpTo(S, n) == UNION {[1..k -> S] : k \in 0..n}

\* lcm_struct->hash: the base hash the parser computed (opaque 64-bit input)
BaseHashes ==
    { U64(1, 0, 0, 32768),                 \* 0x8000000000000001
      U64(65535, 65535, 65535, 65535),     \* 0xffffffffffffffff
      U64(52719, 35243, 17767, 291) }      \* 0x0123456789abcdef

\* Schemas: A and B have any member list up to MaxMembers, C closes a cycle
\* through A or not.
Schemas ==
    { [A |-> [hash |-> hA, members |-> mA],
       B |-> [hash |-> U64(65535, 65535, 0, 49152), members |-> mB],
       C |-> [hash |-> U64(52719, 35243, 17767, 291), members |-> mC]] :
        hA \in BaseHashes,
        mA \in SeqsUpTo(StructNames \cup PrimitiveNames, MaxMembers),
        mB \in SeqsUpTo({"A", "C"} \cup PrimitiveNames, MaxMembers),
        mC \in {<<>>, <<"int8_t">>, <<"A">>} }

-----------------------------------------------------------------------------
(* emit_impl_message_hash: what the generator emits *)

\* the mutant: a member of the struct's own type is not filtered out
emit_hash_terms_noself(ls, name) ==
    SelectSeq(ls.members, LAMBDA tn : ~lcm_is_primitive_type(tn))

\* the mutant: one term per distinct referenced type (as for "use" lines)
emit_hash_terms_dedup(ls, name) ==
    LET ms == ls.members
        Keep(i) == /\ ~lcm_is_primitive_type(ms[i])
                   /\ ms[i] # name
                   /\ \A p \in 1..(i-1) : ms[p] # ms[i]
        RECURSIVE Go(_)
        Go(i) == IF i > Len(ms) THEN <<>>
                 ELSE (IF Keep(i) THEN <<ms[i]>> ELSE <<>>) \o Go(i + 1)
    IN  Go(1)

\* The ".wrapping_add(T::hash())" lines emitted for struct `name`, in order:
\* one per member whose type is not primitive and is not the struct itself.
emit_hash_terms(ls, name) ==
    SelectSeq(ls.members,
              LAMBDA tn : ~lcm_is_primitive_type(tn) /\ tn # name)

\* the mutant: the top bit is lost instead of wrapping to bit 0
Fingerprint_noCarry(hash) == Shl1(hash)

\* The emitted last line of hash(): (hash << 1) + ((hash >> 63) & 1)
Fingerprint(hash) == wrapping_add(Shl1(hash), And1(Shr63(hash)))

\* the variables of the generator while only generated code runs
NameIdle ==
    /\ shortname = <<>>
    /\ buf = <<>>
    /\ cpos = 0
    /\ result_char = 0
    /\ capitalize_next_char = 0
    /\ pcN = "idle"
    /\ type_name = <<>>

FieldIdle ==
    /\ cur_member = [membername |-> <<>>, type |-> <<>>, dimensions |-> <<>>]
    /\ dimd = 0
    /\ pcF = "idle"
    /\ line = <<>>

EmitIdle ==
    /\ gen_structs = <<>>
    /\ fs = <<>>
    /\ pcG = [phase |-> "idle", i |-> 0, at |-> "top"]
    /\ open_files = <<>>
    /\ ret = <<>>
    /\ events = <<>>

\* the encode / decode variables while only hash() runs
CodecIdle ==
    /\ lcm_struct = <<>>
    /\ self = <<>>
    /\ pcE = 0
    /\ out = <<>>
    /\ encRes = "none"
    /\ wfailed = FALSE
    /\ sz = -1
    /\ pcD = 0
    /\ input = <<>>
    /\ rd = [inp |-> <<>>, log |-> <<>>]
    /\ env = <<>>
    /\ decRes = "none"
    /\ decVal = <<>>

-----------------------------------------------------------------------------
(* The generated hash() functions, run as a stack machine *)

Frame(name) == [s |-> name, i |-> 1, acc |-> structs[name].hash]

Top == stack[Len(stack)]

TopTerms == emit_hash_terms(structs[Top.s], Top.s)

InitHash ==
    /\ structs \in Schemas
    /\ stack = <<[s |-> "A", i |-> 1, acc |-> structs["A"].hash]>>
    /\ done = <<>>
    /\ result = <<>>
    /\ crashed = FALSE
    /\ CodecIdle
    /\ NameIdle /\ FieldIdle /\ EmitIdle

\* The running function reaches its next ".wrapping_add(T::hash())": T::hash()
\* is called.
HashCall ==
    /\ ~crashed
    /\ stack # <<>>
    /\ Top.i <= Len(TopTerms)
    /\ Len(stack) < MaxDepth
    /\ stack' = Append(stack, Frame(TopTerms[Top.i]))
    /\ UNCHANGED <<structs, done, result, crashed, codecVars, genVars>>

\* The call does not fit on the stack: the process aborts.
HashOverflow ==
    /\ ~crashed
    /\ stack # <<>>
    /\ Top.i <= Len(TopTerms)
    /\ Len(stack) >= MaxDepth
    /\ crashed' = TRUE
    /\ UNCHANGED <<structs, stack, done, result, codecVars, genVars>>

\* The running function has added all its terms: it returns the rotated sum,
\* which its caller adds to its own sum.
HashReturn ==
    /\ ~crashed
    /\ stack # <<>>
    /\ Top.i > Len(TopTerms)
    /\ LET v    == Fingerprint(Top.acc)
           rest == SubSeq(stack, 1, Len(stack) - 1)
       IN  /\ done' = [n \in (DOMAIN done) \cup {Top.s} |->
                          IF n = Top.s
                          THEN [composed |-> Top.acc, published |-> v]
                          ELSE done[n]]
           /\ IF rest = <<>>
              THEN /\ stack' = <<>>
                   /\ result' = <<v>>
              ELSE /\ stack' = [rest EXCEPT ![Len(rest)] =
                                   [@ EXCEPT !.acc = wrapping_add(@, v),
                                             !.i = @ + 1]]
                   /\ UNCHANGED result
    /\ UNCHANGED <<structs, crashed, codecVars, genVars>>

NextHash == HashCall \/ HashOverflow \/ HashReturn

SpecHash == InitHash /\ [][NextHash]_vars

-----------------------------------------------------------------------------
(* Structs with array members, and their instances *)

Const(k) == [mode |-> "LCM_CONST", size |-> k]

Var(f) == [mode |-> "LCM_VAR", size |-> f]

Member(n, t, ds) == [name |-> n, type |-> t, dims |-> ds]

\* The structs encode / decode / size are generated for:
\*   struct scalars   { int16_t x; string s; }
\*   struct fixed     { int16_t a[2]; }
\*   struct variable  { int8_t n; int16_t v[n]; int16_t t; }
\*   struct strings   { int8_t n; string s[n]; }
\*   struct var_fixed { int8_t n; int16_t v[n][2]; }       Vec<[i16; 2]>
\*   struct fixed_var { int8_t n; int16_t v[2][n]; }       [Vec<i16>; 2]
\*   struct var_var   { int8_t n; int16_t v[n][n]; }       Vec<Vec<i16>>
\*   struct late      { int16_t v[n]; int8_t n; }          size field declared last
LcmStructs ==
    { << Member("x", "int16_t", <<>>), Member("s", "string", <<>>) >>,
      << Member("a", "int16_t", <<Const(2)>>) >>,
      << Member("n", "int8_t", <<>>), Member("v", "int16_t", <<Var("n")>>),
         Member("t", "int16_t", <<>>) >>,
      << Member("n", "int8_t", <<>>), Member("s", "string", <<Var("n")>>) >>,
      << Member("n", "int8_t", <<>>),
         Member("v", "int16_t", <<Var("n"), Const(2)>>) >>,
      << Member("n", "int8_t", <<>>),
         Member("v", "int16_t", <<Const(2), Var("n")>>) >>,
      << Member("n", "int8_t", <<>>),
         Member("v", "int16_t", <<Var("n"), Var("n")>>) >>,
      << Member("v", "int16_t", <<Var("n")>>), Member("n", "int8_t", <<>>) >> }

\* values a leaf of each primitive type takes in the instances
LeafValues(type) ==
    CASE type = "int8_t"  -> (-1)..MaxLen
      [] type = "int16_t" -> {-2, 258}
      [] type = "string"  -> {<<>>, <<97>>, <<97, 98>>}

\* values of a member from dimension d inwards: [T; k] holds exactly k
\* elements, Vec<T> any number
RECURSIVE ValuesOf(_, _, _)
ValuesOf(type, dims, d) ==
    IF d > Len(dims) THEN LeafValues(type)
    ELSE IF dims[d].mode = "LCM_CONST"
         THEN [1..dims[d].size -> ValuesOf(type, dims, d + 1)]
         ELSE SeqsUpTo(ValuesOf(type, dims, d + 1), MaxLen)

Extend(f, k, v) == [x \in (DOMAIN f) \cup {k} |-> IF x = k THEN v ELSE f[x]]

RECURSIVE InstancesUpTo(_, _)
InstancesUpTo(members, i) ==
    IF i = 0 THEN {<<>>}
    ELSE { Extend(f, members[i].name, v) :
             f \in InstancesUpTo(members, i - 1),
             v \in ValuesOf(members[i].type, members[i].dims, 1) }

Instances(members) == InstancesUpTo(members, Len(members))

-----------------------------------------------------------------------------
(* Message::encode / decode / size of the primitive types (crate lcm) *)

Byte(v) == v % 256

\* int8_t: one byte; int16_t: two bytes, big-endian; string: length + 1,
\* the characters, a terminating 0
LeafEncode(type, v) ==
    CASE type = "int8_t"  -> <<Byte(v)>>
      [] type = "int16_t" -> <<Byte(v \div 256), Byte(v)>>
      [] type = "string"  -> <<Len(v) + 1>> \o v \o <<0>>

LeafSize(type, v) ==
    CASE type = "int8_t"  -> 1
      [] type = "int16_t" -> 2
      [] type = "string"  -> Len(v) + 2

\* [ok, val, rest]: fails on exhausted or malformed input
LeafDecode(type, inp) ==
    LET Fail == [ok |-> FALSE, val |-> <<>>, rest |-> inp]
    IN  CASE type = "int8_t" ->
               IF Len(inp) < 1 THEN Fail
               ELSE [ok |-> TRUE,
                     val |-> IF inp[1] >= 128 THEN inp[1] - 256 ELSE inp[1],
                     rest |-> Tail(inp)]
          [] type = "int16_t" ->
               IF Len(inp) < 2 THEN Fail
               ELSE LET u == (inp[1] * 256) + inp[2]
                    IN  [ok |-> TRUE,
                         val |-> IF u >= 32768 THEN u - 65536 ELSE u,
                         rest |-> SubSeq(inp, 3, Len(inp))]
          [] type = "string" ->
               IF Len(inp) < 1 THEN Fail
               ELSE LET l == inp[1]
                    IN  IF l < 1 \/ Len(inp) < 1 + l THEN Fail
                        ELSE IF inp[1 + l] # 0 THEN Fail
                        ELSE [ok |-> TRUE,
                              val |-> SubSeq(inp, 2, l),
                              rest |-> SubSeq(inp, l + 2, Len(inp))]

-----------------------------------------------------------------------------
(* usize arithmetic of the generated encode() *)

\* `v as usize` for a size field v of type int8_t: sign-extended to 64 bits
as_usize(v) ==
    IF v >= 0 THEN U64(v, 0, 0, 0)
    ELSE U64(Limb + v, Limb - 1, Limb - 1, Limb - 1)

\* item.len()
usize_len(item) == U64(Len(item), 0, 0, 0)

\* the mutant: >= instead of >
usize_gt_orEqual(x, y) ==
    \/ x = y
    \/ \E k \in 1..4 : /\ x[k] > y[k]
                       /\ \A j \in (k + 1)..4 : x[j] = y[j]

\* x > y on usize
usize_gt(x, y) ==
    \E k \in 1..4 : /\ x[k] > y[k]
                    /\ \A j \in (k + 1)..4 : x[j] = y[j]

\* the mutant: the whole container is serialized
take_count_all(n, item) == Len(item)

\* number of elements item.iter().take(n) yields
take_count(n, item) == IF usize_gt(n, usize_len(item)) THEN Len(item) ELSE n[1]

-----------------------------------------------------------------------------
(* The generated encode(): emit_impl_message_encode *)

\* the mutant: encoding goes on after a failure
EncFailed_never(es) == FALSE

\* `?` and `return Err(..)`: a failure ends encode()
EncFailed(es) == es.res = "Err"

\* item.encode(&mut buffer)? at the innermost level: the leaf is written to
\* the stream, or the write fails (the es.fail-th write from here does)
encode_leaf(type, item, es) ==
    IF es.fail = 1
    THEN [es EXCEPT !.res = "Err", !.io = TRUE, !.fail = 0]
    ELSE [es EXCEPT !.out = @ \o LeafEncode(type, item),
                    !.fail = IF @ = 0 THEN 0 ELSE @ - 1]

RECURSIVE encode_item(_, _, _, _, _), encode_iter(_, _, _, _, _, _, _)
\* the statements emitted for one member from dimension d inwards, run on
\* `item`
encode_item(this, member, d, item, es) ==
    IF d > Len(member.dims) THEN encode_leaf(member.type, item, es)
    ELSE IF member.dims[d].mode = "LCM_VAR"
         THEN LET n == as_usize(this[member.dims[d].size])
              IN  IF usize_gt(n, usize_len(item))
                  THEN [es EXCEPT !.res = "Err"]
                  ELSE encode_iter(this, member, d, item, 1,
                                   take_count(n, item), es)
         ELSE encode_iter(this, member, d, item, 1, Len(item), es)

\* the mutant: the loop runs over the elements last to first
RECURSIVE encode_iter_reversed(_, _, _, _, _, _, _)
encode_iter_reversed(this, member, d, item, i, k, es) ==
    IF i > k \/ EncFailed(es) THEN es
    ELSE encode_iter_reversed(this, member, d, item, i, k - 1,
                              encode_item(this, member, d + 1, item[k], es))

\* for item in item.iter()[.take(n)] { ... }: elements i..k of `item`
encode_iter(this, member, d, item, i, k, es) ==
    IF i > k \/ EncFailed(es) THEN es
    ELSE encode_iter(this, member, d, item, i + 1, k,
                     encode_item(this, member, d + 1, item[i], es))

-----------------------------------------------------------------------------
(* The generated size(): emit_impl_message_size *)

\* .iter() then one .flat_map(IntoIterator::into_iter) per further dimension:
\* every leaf the containers hold
RECURSIVE Flatten(_, _)
Flatten(item, levels) ==
    IF levels = 0 THEN <<item>>
    ELSE LET RECURSIVE Cat(_)
             Cat(i) == IF i > Len(item) THEN <<>>
                       ELSE Flatten(item[i], levels - 1) \o Cat(i + 1)
         IN  Cat(1)

RECURSIVE SumSizes(_, _, _)
SumSizes(type, leaves, i) ==
    IF i > Len(leaves) THEN 0
    ELSE LeafSize(type, leaves[i]) + SumSizes(type, leaves, i + 1)

\* "+ self.m.size()" or "+ self.m.iter()....map(Message::size).sum()"
size_member(this, member) ==
    IF Len(member.dims) > 0
    THEN SumSizes(member.type, Flatten(this[member.name], Len(member.dims)), 1)
    ELSE LeafSize(member.type, this[member.name])

RECURSIVE size_upto(_, _, _)
size_upto(this, members, i) ==
    IF i = 0 THEN 0
    ELSE size_upto(this, members, i - 1) + size_member(this, members[i])

-----------------------------------------------------------------------------
(* encode() and size() of one instance *)

HashIdle ==
    /\ structs = <<>>
    /\ stack = <<>>
    /\ done = <<>>
    /\ result = <<>>
    /\ crashed = FALSE

InitCodec ==
    /\ HashIdle
    /\ NameIdle /\ FieldIdle /\ EmitIdle
    /\ lcm_struct \in LcmStructs
    /\ self \in Instances(lcm_struct)
    /\ pcE = 1
    /\ out = <<>>
    /\ encRes = "none"
    /\ wfailed = FALSE
    /\ sz = -1
    /\ pcD = 0
    /\ input = <<>>
    /\ rd = [inp |-> <<>>, log |-> <<>>]
    /\ env = <<>>
    /\ decRes = "none"
    /\ decVal = <<>>

\* The statements of one member run: "let item = &self.m;" and its loops.
\* The stream fails at the member's failAt-th leaf write (0: it does not).
EncodeMember ==
    /\ pcE \in 1..Len(lcm_struct)
    /\ \E failAt \in 0..MaxFailAt :
         LET member == lcm_struct[pcE]
             es == encode_item(self, member, 1, self[member.name],
                       [out |-> out, res |-> "run", io |-> FALSE,
                        fail |-> failAt])
         IN  /\ out' = es.out
             /\ wfailed' = es.io
             /\ IF EncFailed(es)
                THEN /\ encRes' = "Err"
                     /\ pcE' = 0
                ELSE /\ encRes' = encRes
                     /\ pcE' = pcE + 1
    /\ UNCHANGED <<genVars, hashVars, lcm_struct, self, sz, pcD, input, rd, env,
                   decRes, decVal>>

\* Ok(())
EncodeFinish ==
    /\ pcE = Len(lcm_struct) + 1
    /\ encRes' = "Ok"
    /\ pcE' = 0
    /\ UNCHANGED <<genVars, hashVars, lcm_struct, self, out, wfailed, sz, pcD, input,
                   rd, env, decRes, decVal>>

\* size() is called on the instance
Size ==
    /\ pcE = 0
    /\ sz = -1
    /\ sz' = size_upto(self, lcm_struct, Len(lcm_struct))
    /\ UNCHANGED <<genVars, hashVars, lcm_struct, self, pcE, out, encRes, wfailed, pcD,
                   input, rd, env, decRes, decVal>>

-----------------------------------------------------------------------------
(* The generated decode(): emit_impl_message_decode *)

\* the mutant: the "let" statements come out in reverse member order
emit_impl_message_decode_reversed(members) ==
    [k \in 1..Len(members) |-> Len(members) + 1 - k]

\* The "let <member> = ...;" statements in the order they are emitted: the
\* k-th statement decodes member emit_impl_message_decode(members)[k].
emit_impl_message_decode(members) == [k \in 1..Len(members) |-> k]

DecodeStmts == emit_impl_message_decode(lcm_struct)

\* The emitted decode() is a function that builds:
\*  - "(0..n)" names a local that an earlier "let n = ..." statement binds;
\*  - "?" is appended to an expression only at dimension 0 or right inside a
\*    CONST dimension; an expression right inside a VAR dimension is the value
\*    of the closure handed to map(), which collect::<Result<_>>() requires
\*    to be a Result: a leaf decode or a collect, not the array literal (with
\*    "?" on its elements) that a CONST dimension emits.
DecoderBuilds ==
    \A k \in 1..Len(lcm_struct) :
        LET m == lcm_struct[DecodeStmts[k]]
        IN  /\ \A d \in DOMAIN m.dims :
                  m.dims[d].mode = "LCM_VAR" =>
                      \E j \in 1..(k - 1) :
                          lcm_struct[DecodeStmts[j]].name = m.dims[d].size
            /\ \A d \in 2..Len(m.dims) :
                  ~(m.dims[d - 1].mode = "LCM_VAR"
                        /\ m.dims[d].mode = "LCM_CONST")

\* the mutant: decoding goes on after a failed leaf
DecFailed_never(r) == FALSE

\* `?` and collect::<Result<_>>(): the first Err ends the evaluation
DecFailed(r) == ~r.ok

\* Message::decode(&mut buffer) at the innermost level
decode_leaf(type, r) ==
    LET l == LeafDecode(type, r.inp)
    IN  [val |-> l.val,
         r |-> [inp |-> l.rest,
                log |-> Append(r.log, IF l.ok THEN "ok" ELSE "fail"),
                ok |-> l.ok]]

\* the number of elements (0..n) yields
RangeLen(n) == IF n > 0 THEN n ELSE 0

RECURSIVE emit_impl_message_decode_recursive(_, _, _, _),
          decode_elems(_, _, _, _, _, _, _)
\* the expression emitted for `member` from dimension d inwards, evaluated
\* with the locals decoded so far
emit_impl_message_decode_recursive(member, d, locals, r) ==
    IF d > Len(member.dims) THEN decode_leaf(member.type, r)
    ELSE IF member.dims[d].mode = "LCM_CONST"
         THEN decode_elems(member, d, locals, r, 1, member.dims[d].size, <<>>)
         ELSE decode_elems(member, d, locals, r, 1,
                           RangeLen(locals[member.dims[d].size]), <<>>)

\* elements i..k of one dimension, in order
decode_elems(member, d, locals, r, i, k, acc) ==
    IF i > k THEN [val |-> acc, r |-> r]
    ELSE LET e == emit_impl_message_decode_recursive(member, d + 1, locals, r)
         IN  IF DecFailed(e.r) THEN [val |-> <<>>, r |-> e.r]
             ELSE decode_elems(member, d, locals, e.r, i + 1, k,
                               Append(acc, e.val))

\* the byte strings decode() is run on: the encoder's output, each of its
\* prefixes, and the output with its last byte overwritten
DecodeInputs(bytes) ==
    {SubSeq(bytes, 1, k) : k \in 0..Len(bytes)}
        \cup (IF bytes = <<>> THEN {}
              ELSE {[bytes EXCEPT ![Len(bytes)] = 255]})

\* decode() is called (after encode() and size() of the instance returned)
DecodeStart ==
    /\ pcE = 0 /\ encRes = "Ok" /\ sz # -1
    /\ pcD = 0 /\ decRes = "none"
    /\ DecoderBuilds
    /\ \E bytes \in DecodeInputs(out) :
          /\ input' = bytes
          /\ rd' = [inp |-> bytes, log |-> <<>>]
    /\ pcD' = 1
    /\ env' = <<>>
    /\ UNCHANGED <<genVars, hashVars, lcm_struct, self, pcE, out, encRes, wfailed, sz,
                   decRes, decVal>>

\* The emitted decode() does not build: there is no decode() to call.
DecodeNoBuild ==
    /\ pcE = 0 /\ encRes = "Ok" /\ sz # -1
    /\ pcD = 0 /\ decRes = "none"
    /\ ~DecoderBuilds
    /\ decRes' = "NoBuild"
    /\ UNCHANGED <<genVars, hashVars, lcm_struct, self, pcE, out, encRes, wfailed, sz,
                   pcD, input, rd, env, decVal>>

\* One "let <member> = <expression>;" runs.
DecodeMember ==
    /\ pcD \in 1..Len(lcm_struct)
    /\ LET member == lcm_struct[DecodeStmts[pcD]]
           e == emit_impl_message_decode_recursive(member, 1, env,
                    [inp |-> rd.inp, log |-> rd.log, ok |-> TRUE])
       IN  /\ rd' = [inp |-> e.r.inp, log |-> e.r.log]
           /\ IF DecFailed(e.r)
              THEN /\ decRes' = "Err"
                   /\ pcD' = 0
                   /\ env' = env
              ELSE /\ decRes' = decRes
                   /\ pcD' = pcD + 1
                   /\ env' = Extend(env, member.name, e.val)
    /\ UNCHANGED <<genVars, hashVars, lcm_struct, self, pcE, out, encRes, wfailed, sz,
                   input, decVal>>

\* Ok(T { m: m, ... })
DecodeFinish ==
    /\ pcD = Len(lcm_struct) + 1
    /\ decRes' = "Ok"
    /\ decVal' = <<[n \in {lcm_struct[i].name : i \in DOMAIN lcm_struct} |->
                       env[n]]>>
    /\ pcD' = 0
    /\ UNCHANGED <<genVars, hashVars, lcm_struct, self, pcE, out, encRes, wfailed, sz,
                   input, rd, env>>

NextCodec ==
    \/ EncodeMember
    \/ EncodeFinish
    \/ Size
    \/ DecodeStart
    \/ DecodeNoBuild
    \/ DecodeMember
    \/ DecodeFinish

SpecCodec == InitCodec /\ [][NextCodec]_vars

-----------------------------------------------------------------------------
(* Names: strip_underscore_t and make_rust_type_name *)

\* the characters identifiers are made of: a lower-case letter, an upper-case
\* letter, the letter of the "_t" suffix, the underscore, a digit
IdChars == {"a", "B", "t", "_", "1"}

\* the terminating character of a C string
NUL == "NUL"

\* the mutant: the character is kept as it is
tolower_keep(ch) == ch

toupper(ch) ==
    CASE ch = "a" -> "A"
      [] ch = "b" -> "B"
      [] ch = "d" -> "D"
      [] ch = "f" -> "F"
      [] ch = "m" -> "M"
      [] ch = "o" -> "O"
      [] ch = "t" -> "T"
      [] OTHER -> ch

tolower(ch) ==
    CASE ch = "A" -> "a"
      [] ch = "B" -> "b"
      [] ch = "D" -> "d"
      [] ch = "F" -> "f"
      [] ch = "M" -> "m"
      [] ch = "O" -> "o"
      [] ch = "T" -> "t"
      [] OTHER -> ch

\* the string a buffer holds: the characters before its first NUL
CStr(b) ==
    LET end == CHOOSE k \in DOMAIN b :
                   b[k] = NUL /\ \A j \in 1..(k - 1) : b[j] # NUL
    IN  SubSeq(b, 1, end - 1)

\* strdup(name)
strdup(name) == Append(name, NUL)

\* the mutant: the suffix is left in place
strip_underscore_t_keep(name) == strdup(name)

\* the buffer strip_underscore_t returns
strip_underscore_t(name) ==
    LET res == strdup(name)
        len == Len(name)
    IN  IF len < 2 THEN res
        ELSE IF res[len - 1] = "_" /\ res[len] = "t"
             THEN [res EXCEPT ![len - 1] = NUL]
             ELSE res

\* one iteration of the loop of make_rust_type_name on
\* [buf, c, result_char, capitalize_next_char]
camel_step(st) ==
    LET ch == st.buf[st.c]
    IN  IF ch = "_"
        THEN [st EXCEPT !.capitalize_next_char = 1, !.c = @ + 1]
        ELSE [buf |-> [st.buf EXCEPT ![st.result_char] =
                          IF st.capitalize_next_char = 1
                          THEN toupper(ch) ELSE tolower(ch)],
              c |-> st.c + 1,
              result_char |-> st.result_char + 1,
              capitalize_next_char |-> 0]

RECURSIVE camel_loop(_)
camel_loop(st) == IF st.buf[st.c] = NUL THEN st ELSE camel_loop(camel_step(st))

\* the string make_rust_type_name returns for typename->shortname
make_rust_type_name(name) ==
    LET st == camel_loop([buf |-> strip_underscore_t(name), c |-> 1,
                          result_char |-> 1, capitalize_next_char |-> 1])
    IN  CStr([st.buf EXCEPT ![st.result_char] = NUL])

HashCodecIdle == HashIdle /\ CodecIdle

InitName ==
    /\ HashCodecIdle /\ FieldIdle /\ EmitIdle
    /\ shortname \in SeqsUpTo(IdChars, MaxIdLen)
    /\ buf = <<>>
    /\ cpos = 0
    /\ result_char = 0
    /\ capitalize_next_char = 0
    /\ pcN = "strip"
    /\ type_name = <<>>

\* char *result = strip_underscore_t(typename->shortname); and the
\* initialisation of the loop
StripUnderscoreT ==
    /\ pcN = "strip"
    /\ buf' = strip_underscore_t(shortname)
    /\ cpos' = 1
    /\ result_char' = 1
    /\ capitalize_next_char' = 1
    /\ pcN' = "loop"
    /\ UNCHANGED <<hashVars, codecVars, fieldVars, emitVars, shortname,
                   type_name>>

\* one iteration of "for (const char* c = result; *c != 0; ++c)"
CamelStep ==
    /\ pcN = "loop"
    /\ buf[cpos] # NUL
    /\ LET st == camel_step([buf |-> buf, c |-> cpos,
                             result_char |-> result_char,
                             capitalize_next_char |-> capitalize_next_char])
       IN  /\ buf' = st.buf
           /\ cpos' = st.c
           /\ result_char' = st.result_char
           /\ capitalize_next_char' = st.capitalize_next_char
    /\ UNCHANGED <<hashVars, codecVars, fieldVars, emitVars, shortname, pcN,
                   type_name>>

\* "*result_char = 0; return result;"
CamelFinish ==
    /\ pcN = "loop"
    /\ buf[cpos] = NUL
    /\ buf' = [buf EXCEPT ![result_char] = NUL]
    /\ type_name' = CStr(buf')
    /\ pcN' = "done"
    /\ UNCHANGED <<hashVars, codecVars, fieldVars, emitVars, shortname, cpos,
                   result_char, capitalize_next_char>>

NextName == StripUnderscoreT \/ CamelStep \/ CamelFinish

SpecName == InitName /\ [][NextName]_vars

-----------------------------------------------------------------------------
(* emit_struct_def: the field emitted for one member *)

\* the table of map_lcm_primitive: <<LCM type name, Rust type name>>
PrimitiveMap ==
    { <<<<"b", "o", "o", "l", "e", "a", "n">>,
        <<"b", "o", "o", "l">>>>,
      <<<<"s", "t", "r", "i", "n", "g">>,
        <<"S", "t", "r", "i", "n", "g">>>>,
      <<<<"b", "y", "t", "e">>,
        <<"u", "8">>>>,
      <<<<"i", "n", "t", "8", "_", "t">>,
        <<"i", "8">>>>,
      <<<<"i", "n", "t", "1", "6", "_", "t">>,
        <<"i", "1", "6">>>>,
      <<<<"i", "n", "t", "3", "2", "_", "t">>,
        <<"i", "3", "2">>>>,
      <<<<"i", "n", "t", "6", "4", "_", "t">>,
        <<"i", "6", "4">>>>,
      <<<<"u", "i", "n", "t", "8", "_", "t">>,
        <<"u", "8">>>>,
      <<<<"u", "i", "n", "t", "1", "6", "_", "t">>,
        <<"u", "1", "6">>>>,
      <<<<"u", "i", "n", "t", "3", "2", "_", "t">>,
        <<"u", "3", "2">>>>,
      <<<<"u", "i", "n", "t", "6", "4", "_", "t">>,
        <<"u", "6", "4">>>>,
      <<<<"f", "l", "o", "a", "t">>,
        <<"f", "3", "2">>>>,
      <<<<"d", "o", "u", "b", "l", "e">>,
        <<"f", "6", "4">>>>  }

\* the Rust names map_lcm_primitive returns: none stands for NULL
map_lcm_primitive(typename) == {q[2] : q \in {e \in PrimitiveMap : e[1] = typename}}

map_type_name(typename) ==
    LET t == map_lcm_primitive(typename)
    IN  IF t # {} THEN CHOOSE x \in t : TRUE
        ELSE make_rust_type_name(typename)

LcmConst(size) == [mode |-> "LCM_CONST", size |-> size]

LcmVar(size) == [mode |-> "LCM_VAR", size |-> size]

\* the dimensions members are declared with: [2], [3], [n]
FieldDimensions == {LcmConst(<<"2">>), LcmConst(<<"3">>), LcmVar(<<"n">>)}

\* the member types: two primitive types and the struct type foo_t
FieldTypes == { <<"i", "n", "t", "8", "_", "t">>,
                <<"s", "t", "r", "i", "n", "g">>,
                <<"f", "o", "o", "_", "t">> }

\* emit_start(1, ...): an indentation of INDENT(1) characters
Indent1 == <<" ", " ", " ", " ">>

\* the mutant: the closing loop runs over the dimensions first to last
closing_dimension_forward(dimensions, open) ==
    dimensions[Len(dimensions) + 1 - open]

\* "for (unsigned int d = ndim; d-- > 0; )": the dimension closed while
\* `open` dimensions are still to close
closing_dimension(dimensions, open) == dimensions[open]

InitField ==
    /\ HashCodecIdle /\ NameIdle /\ EmitIdle
    /\ \E t \in FieldTypes, ds \in SeqsUpTo(FieldDimensions, MaxDims) :
          cur_member = [membername |-> <<"v">>, type |-> t, dimensions |-> ds]
    /\ dimd = 0
    /\ pcF = "start"
    /\ line = <<>>

\* emit_start(1, "pub %s: ", member->membername);
FieldStart ==
    /\ pcF = "start"
    /\ line' = Indent1 \o <<"p", "u", "b", " ">> \o cur_member.membername
                   \o <<":", " ">>
    /\ dimd' = 0
    /\ pcF' = "open"
    /\ UNCHANGED <<hashVars, codecVars, nameVars, emitVars, cur_member>>

\* one iteration of the forward loop: the array declaration is opened
FieldOpen ==
    /\ pcF = "open"
    /\ dimd < Len(cur_member.dimensions)
    /\ LET dimension == cur_member.dimensions[dimd + 1]
       IN  line' = line \o (IF dimension.mode = "LCM_CONST"
                            THEN <<"[">>
                            ELSE <<"V", "e", "c", "<">>)
    /\ dimd' = dimd + 1
    /\ UNCHANGED <<hashVars, codecVars, nameVars, emitVars, cur_member, pcF>>

\* the forward loop ends; emit_continue("%s", mapped_typename);
FieldType ==
    /\ pcF = "open"
    /\ dimd = Len(cur_member.dimensions)
    /\ line' = line \o map_type_name(cur_member.type)
    /\ pcF' = "close"
    /\ UNCHANGED <<hashVars, codecVars, nameVars, emitVars, cur_member, dimd>>

\* one iteration of the backward loop: the array declaration is closed
FieldClose ==
    /\ pcF = "close"
    /\ dimd > 0
    /\ LET dimension == closing_dimension(cur_member.dimensions, dimd)
       IN  line' = line \o (IF dimension.mode = "LCM_CONST"
                            THEN <<";", " ">> \o dimension.size \o <<"]">>
                            ELSE <<">">>)
    /\ dimd' = dimd - 1
    /\ UNCHANGED <<hashVars, codecVars, nameVars, emitVars, cur_member, pcF>>

\* the backward loop ends; emit_end(",");
FieldEnd ==
    /\ pcF = "close"
    /\ dimd = 0
    /\ line' = line \o <<",">>
    /\ pcF' = "done"
    /\ UNCHANGED <<hashVars, codecVars, nameVars, emitVars, cur_member, dimd>>

NextField == FieldStart \/ FieldOpen \/ FieldType \/ FieldClose \/ FieldEnd

SpecField == InitField /\ [][NextField]_vars

-----------------------------------------------------------------------------
(* emit_rust: the files of a schema *)

LcmStruct(pkg, name) == [package |-> pkg, shortname |-> name]

\* the structs schemas are made of:
\*   package p; struct a_t, struct a, struct mod_t        package q; struct B
GenStructs ==
    { LcmStruct("p", <<"a", "_", "t">>),
      LcmStruct("p", <<"a">>),
      LcmStruct("p", <<"m", "o", "d", "_", "t">>),
      LcmStruct("q", <<"B">>) }

\* lcmgen->structs: one to MaxStructs different structs, in any order
GenSchemas ==
    {sq \in SeqsUpTo(GenStructs, MaxStructs) :
        /\ sq # <<>>
        /\ \A i, j \in DOMAIN sq : i # j => sq[i] # sq[j]}

\* a path below rust-path: the directory of the package and the file name
make_rust_mod_file_name(ls) ==
    [dir |-> ls.package, file |-> <<"m", "o", "d", ".", "r", "s">>]

make_rust_file_name(ls) ==
    [dir |-> ls.package,
     file |-> CStr(strip_underscore_t(ls.shortname)) \o <<".", "r", "s">>]

\* what a file holds, piece by piece: [kind, of, mod, use]
Piece(kind, of, mod, use) ==
    [kind |-> kind, of |-> of, mod |-> mod, use |-> use]

\* an entry written by an earlier run for a struct that is gone
OldEntry == Piece("pub_use", <<>>, <<"o">>, <<"O">>)

\* emit_pub_use: "pub mod <mod>;" and "pub use self::<mod>::<Type>;"
emit_pub_use(ls) ==
    Piece("pub_use", <<>>, CStr(strip_underscore_t(ls.shortname)),
          make_rust_type_name(ls.shortname))

\* what emit_rust writes to the file of a struct, in order
StructSections == <<"header_start", "struct_def", "constants", "impl_message">>

emit_struct_file(ls) ==
    [k \in DOMAIN StructSections |->
        Piece(StructSections[k], ls.shortname,
              CStr(strip_underscore_t(ls.shortname)),
              make_rust_type_name(ls.shortname))]

\* remove(path): the file is gone
remove(files, path) == [q \in (DOMAIN files) \ {path} |-> files[q]]

\* fopen(path, "a"): the file exists afterwards, with the content it had
fopen_a(files, path) ==
    IF path \in DOMAIN files THEN files
    ELSE [q \in (DOMAIN files) \cup {path} |->
             IF q = path THEN <<>> ELSE files[q]]

\* fopen(path, "w"): the file exists afterwards and is empty
fopen_w(files, path) ==
    [q \in (DOMAIN files) \cup {path} |-> IF q = path THEN <<>> ELSE files[q]]

\* fprintf(f, ...): the pieces are appended to the file
fprintf(files, path, pieces) == [files EXCEPT ![path] = @ \o pieces]

\* the mutant: the stream stays open
fclose_leak(streams, path) == streams

\* fclose(f): the stream of the path is no longer open
fclose(streams, path) ==
    LET k == CHOOSE k \in DOMAIN streams : streams[k] = path
    IN  SubSeq(streams, 1, k - 1) \o SubSeq(streams, k + 1, Len(streams))

Event(op, path, ok) == [op |-> op, path |-> path, ok |-> ok]

\* failures of the file system so far (a remove of a file that does not
\* exist is none)
Faults == Cardinality({k \in DOMAIN events : events[k].ok = "fail"})

MayFail == Faults < MaxFaults

CurStruct == gen_structs[pcG.i]

\* the position after iteration i of a loop over the structs
LoopNext(phase, nextPhase) ==
    IF pcG.i < Len(gen_structs)
    THEN [phase |-> phase, i |-> pcG.i + 1, at |-> "top"]
    ELSE [phase |-> nextPhase, i |-> 1, at |-> "top"]

InitEmit ==
    /\ HashCodecIdle /\ NameIdle /\ FieldIdle
    /\ gen_structs \in GenSchemas
    /\ \E before \in SUBSET {make_rust_mod_file_name(gen_structs[i]) :
                               i \in DOMAIN gen_structs} :
          fs = [q \in before |-> <<OldEntry>>]
    /\ pcG = [phase |-> "remove", i |-> 1, at |-> "top"]
    /\ open_files = <<>>
    /\ ret = <<>>
    /\ events = <<>>

\* one iteration of the first loop: remove(modfile_name), whose result only
\* decides whether "Removed file" is printed
RemoveModFile ==
    /\ pcG.phase = "remove"
    /\ LET path == make_rust_mod_file_name(CurStruct)
       IN  \/ /\ path \in DOMAIN fs
              /\ fs' = remove(fs, path)
              /\ events' = Append(events, Event("remove", path, "ok"))
           \/ /\ path \in DOMAIN fs
              /\ MayFail
              /\ fs' = fs
              /\ events' = Append(events, Event("remove", path, "fail"))
           \/ /\ path \notin DOMAIN fs
              /\ fs' = fs
              /\ events' = Append(events, Event("remove", path, "enoent"))
    /\ pcG' = LoopNext("remove", "mod")
    /\ UNCHANGED <<hashVars, codecVars, nameVars, fieldVars, gen_structs,
                   open_files, ret>>

\* second loop: FILE* f = fopen(modfile_name, "a") returns a stream
ModOpen ==
    /\ pcG.phase = "mod" /\ pcG.at = "top"
    /\ LET path == make_rust_mod_file_name(CurStruct)
       IN  /\ fs' = fopen_a(fs, path)
           /\ open_files' = Append(open_files, path)
           /\ events' = Append(events, Event("fopen", path, "ok"))
    /\ pcG' = [pcG EXCEPT !.at = "opened"]
    /\ UNCHANGED <<hashVars, codecVars, nameVars, fieldVars, gen_structs, ret>>

\* second loop: fopen returns NULL: "Couldn't open"; return -1
ModOpenFail ==
    /\ pcG.phase = "mod" /\ pcG.at = "top"
    /\ MayFail
    /\ events' = Append(events,
                     Event("fopen", make_rust_mod_file_name(CurStruct), "fail"))
    /\ ret' = <<-1>>
    /\ pcG' = [phase |-> "done", i |-> pcG.i, at |-> "top"]
    /\ UNCHANGED <<hashVars, codecVars, nameVars, fieldVars, gen_structs, fs,
                   open_files>>

\* second loop: emit_pub_use(lcmgen, f, lcm_struct); the results of its
\* fprintf calls are not looked at
ModWrite ==
    /\ pcG.phase = "mod" /\ pcG.at = "opened"
    /\ LET path == make_rust_mod_file_name(CurStruct)
       IN  \/ /\ fs' = fprintf(fs, path, <<emit_pub_use(CurStruct)>>)
              /\ events' = Append(events, Event("write", path, "ok"))
           \/ /\ MayFail
              /\ fs' = fs
              /\ events' = Append(events, Event("write", path, "fail"))
    /\ pcG' = [pcG EXCEPT !.at = "written"]
    /\ UNCHANGED <<hashVars, codecVars, nameVars, fieldVars, gen_structs,
                   open_files, ret>>

\* second loop: fclose(f); free(modfile_name);
ModClose ==
    /\ pcG.phase = "mod" /\ pcG.at = "written"
    /\ LET path == make_rust_mod_file_name(CurStruct)
       IN  /\ open_files' = fclose(open_files, path)
           /\ events' = Append(events, Event("fclose", path, "ok"))
    /\ pcG' = LoopNext("mod", "struct")
    /\ UNCHANGED <<hashVars, codecVars, nameVars, fieldVars, gen_structs, fs,
                   ret>>

\* third loop: FILE* f = fopen(file_name, "w") returns a stream
StructOpen ==
    /\ pcG.phase = "struct" /\ pcG.at = "top"
    /\ LET path == make_rust_file_name(CurStruct)
       IN  /\ fs' = fopen_w(fs, path)
           /\ open_files' = Append(open_files, path)
           /\ events' = Append(events, Event("fopen", path, "ok"))
    /\ pcG' = [pcG EXCEPT !.at = "opened"]
    /\ UNCHANGED <<hashVars, codecVars, nameVars, fieldVars, gen_structs, ret>>

\* third loop: fopen returns NULL: "Couldn't open"; return -1
StructOpenFail ==
    /\ pcG.phase = "struct" /\ pcG.at = "top"
    /\ MayFail
    /\ events' = Append(events,
                     Event("fopen", make_rust_file_name(CurStruct), "fail"))
    /\ ret' = <<-1>>
    /\ pcG' = [phase |-> "done", i |-> pcG.i, at |-> "top"]
    /\ UNCHANGED <<hashVars, codecVars, nameVars, fieldVars, gen_structs, fs,
                   open_files>>

\* third loop: emit_header_start, emit_struct_def, emit_constants,
\* emit_impl_message; the results of their fprintf calls are not looked at.
\* When a write fails, the sections before it are in the file.
StructWrite ==
    /\ pcG.phase = "struct" /\ pcG.at = "opened"
    /\ LET path == make_rust_file_name(CurStruct)
           text == emit_struct_file(CurStruct)
       IN  \/ /\ fs' = fprintf(fs, path, text)
              /\ events' = Append(events, Event("write", path, "ok"))
           \/ /\ MayFail
              /\ \E k \in 0..(Len(text) - 1) :
                    fs' = fprintf(fs, path, SubSeq(text, 1, k))
              /\ events' = Append(events, Event("write", path, "fail"))
    /\ pcG' = [pcG EXCEPT !.at = "written"]
    /\ UNCHANGED <<hashVars, codecVars, nameVars, fieldVars, gen_structs,
                   open_files, ret>>

\* third loop: fclose(f); free(file_name);
StructClose ==
    /\ pcG.phase = "struct" /\ pcG.at = "written"
    /\ LET path == make_rust_file_name(CurStruct)
       IN  /\ open_files' = fclose(open_files, path)
           /\ events' = Append(events, Event("fclose", path, "ok"))
    /\ pcG' = LoopNext("struct", "return")
    /\ UNCHANGED <<hashVars, codecVars, nameVars, fieldVars, gen_structs, fs,
                   ret>>

\* return 0;
Return0 ==
    /\ pcG.phase = "return"
    /\ ret' = <<0>>
    /\ pcG' = [phase |-> "done", i |-> pcG.i, at |-> "top"]
    /\ UNCHANGED <<hashVars, codecVars, nameVars, fieldVars, gen_structs, fs,
                   open_files, events>>

NextEmit ==
    \/ RemoveModFile
    \/ ModOpen
    \/ ModOpenFail
    \/ ModWrite
    \/ ModClose
    \/ StructOpen
    \/ StructOpenFail
    \/ StructWrite
    \/ StructClose
    \/ Return0

SpecEmit == InitEmit /\ [][NextEmit]_vars

-----------------------------------------------------------------------------
(* Claims about the generated hash() *)

IsOtherStruct(tn, name) == tn \in StructNames /\ tn # name

\* base hash of `name` plus, member by member, the value hash() returned for
\* the member's type when that type is a struct other than `name`
RECURSIVE SumPerMember(_, _)
SumPerMember(name, i) ==
    IF i = 0 THEN structs[name].hash
    ELSE LET tn == structs[name].members[i]
         IN  IF IsOtherStruct(tn, name)
             THEN wrapping_add(SumPerMember(name, i - 1), done[tn].published)
             ELSE SumPerMember(name, i - 1)

\* the distinct struct types, other than `name`, that members of `name` have
DistinctRefs(name) ==
    {structs[name].members[i] : i \in DOMAIN structs[name].members}
        \cap (StructNames \ {name})

\* base hash of `name` plus the hash() of each type of `refs`, once
RECURSIVE SumDistinct(_, _)
SumDistinct(name, refs) ==
    IF refs = {} THEN structs[name].hash
    ELSE LET tn == CHOOSE t \in refs : TRUE
         IN  wrapping_add(SumDistinct(name, refs \ {tn}), done[tn].published)

\* C1 as stated: the composed hash of S is S's base hash plus the hash of each
\* distinct struct type S's members reference, each added exactly once however
\* many members have that type.
C1_ComposedAddsDistinctOnce ==
    \A name \in DOMAIN done :
        /\ DistinctRefs(name) \subseteq DOMAIN done
        /\ done[name].composed = SumDistinct(name, DistinctRefs(name))

\* C1 as amended: whenever hash() of S returns, its composed hash is S's base
\* hash plus (mod 2^64) one term per member whose type is a struct other than
\* S, and that term is the value hash() of the member's type returned (its
\* rotated, published fingerprint); a type that n members have is added n
\* times.
C1_ComposedAddsPerMember ==
    \A name \in DOMAIN done :
        /\ DistinctRefs(name) \subseteq DOMAIN done
        /\ done[name].composed =
               SumPerMember(name, Len(structs[name].members))

\* C1's case: hash() returned for a struct with two members of one struct type
C1_Witness ==
    \E name \in DOMAIN done :
        \E i, j \in DOMAIN structs[name].members :
            /\ i # j
            /\ structs[name].members[i] = structs[name].members[j]
            /\ IsOtherStruct(structs[name].members[i], name)

\* C2: the computation ends with a value on every reference graph: no struct
\* whose hash() is in progress is entered again, and the call stack is never
\* exhausted.
C2_HashCycleSafe ==
    /\ ~crashed
    /\ \A i, j \in DOMAIN stack : i # j => stack[i].s # stack[j].s

\* C3: the value hash() returns is its composed hash rotated left by one bit
\* within 64 bits: bit i moves to bit i+1 and bit 63 to bit 0.
C3_FingerprintIsRotl1 ==
    \A name \in DOMAIN done :
        LET h == done[name].composed
            f == done[name].published
        IN  /\ \A k \in 1..4 : f[k] \in 0..(Limb - 1)
            /\ \A i \in 0..62 : Bit(f, i + 1) = Bit(h, i)
            /\ Bit(f, 0) = Bit(h, 63)
            /\ (stack = <<>> /\ name = "A") => result = <<f>>

\* C3's case: hash() returned for a composed hash whose top bit is set
C3_Witness ==
    \E name \in DOMAIN done :
        /\ Bit(done[name].composed, 63) = 1
        /\ Bit(done[name].composed, 62) = 0
        /\ name = "A" /\ result = <<done[name].published>>

\* C4: a member of primitive type and a member of the struct's own type add
\* nothing: hash() of S only ever calls hash() of a struct other than S, one
\* call per member of such a type, and with no such member the composed hash
\* is the base hash.
C4_PrimitiveAndSelfAddNothing ==
    /\ \A k \in DOMAIN stack :
           /\ stack[k].s \in StructNames
           /\ k > 1 => stack[k].s # stack[k - 1].s
           /\ stack[k].i - 1 <=
                  Cardinality({i \in DOMAIN structs[stack[k].s].members :
                      IsOtherStruct(structs[stack[k].s].members[i],
                                    stack[k].s)})
    /\ \A name \in DOMAIN done :
           (\A i \in DOMAIN structs[name].members :
                ~IsOtherStruct(structs[name].members[i], name))
               => done[name].composed = structs[name].hash

\* C4's case: hash() returned for a struct with a member of its own type and a
\* member of primitive type
C4_Witness ==
    /\ "A" \in DOMAIN done
    /\ structs["A"].members = <<"A", "int8_t">>
    /\ done["A"].composed = structs["A"].hash

-----------------------------------------------------------------------------
(* Claims about the generated encode(), size() and decode() *)

RECURSIVE Concat(_)
Concat(seqs) == IF seqs = <<>> THEN <<>> ELSE Head(seqs) \o Concat(Tail(seqs))

\* The leaf encodings a traversal of `item` from dimension d serializes, in
\* row-major order, the declared count of elements on each variable axis, up
\* to the first variable axis whose size field is out of range: [leaves, bad].
\* A size field is out of range when it exceeds the container's length and,
\* with `neg`, also when it is negative.
RECURSIVE Trav(_, _, _, _, _), TravSeq(_, _, _, _, _, _, _)
Trav(this, member, d, item, neg) ==
    IF d > Len(member.dims)
    THEN [leaves |-> <<LeafEncode(member.type, item)>>, bad |-> FALSE]
    ELSE IF member.dims[d].mode = "LCM_VAR"
         THEN LET n == this[member.dims[d].size]
              IN  IF n > Len(item) \/ (neg /\ n < 0)
                  THEN [leaves |-> <<>>, bad |-> TRUE]
                  ELSE TravSeq(this, member, d, item, 1, n, neg)
         ELSE TravSeq(this, member, d, item, 1, Len(item), neg)

TravSeq(this, member, d, item, i, k, neg) ==
    IF i > k THEN [leaves |-> <<>>, bad |-> FALSE]
    ELSE LET h == Trav(this, member, d + 1, item[i], neg)
         IN  IF h.bad THEN h
             ELSE LET t == TravSeq(this, member, d, item, i + 1, k, neg)
                  IN  [leaves |-> h.leaves \o t.leaves, bad |-> t.bad]

RECURSIVE TravMembers(_, _, _, _)
TravMembers(this, members, i, neg) ==
    IF i > Len(members) THEN [leaves |-> <<>>, bad |-> FALSE]
    ELSE LET h == Trav(this, members[i], 1, this[members[i].name], neg)
         IN  IF h.bad THEN h
             ELSE LET t == TravMembers(this, members, i + 1, neg)
                  IN  [leaves |-> h.leaves \o t.leaves, bad |-> t.bad]

EncodeReturned == pcE = 0 /\ encRes # "none"

\* C5 as stated: encode fails whenever a size field reached in the traversal
\* exceeds the length of its container; when no size field does (and no write
\* fails) it succeeds and serializes exactly the declared count on each axis.
C5_DeclaredCountEnforced ==
    EncodeReturned =>
        LET t == TravMembers(self, lcm_struct, 1, FALSE)
        IN  /\ t.bad => encRes = "Err"
            /\ (~t.bad /\ ~wfailed) =>
                   (encRes = "Ok" /\ out = Concat(t.leaves))

\* C5 as amended: encode fails whenever a size field reached in the traversal,
\* converted to usize, exceeds the length of its container, which is so when
\* its value exceeds the length and also when its value is negative; when
\* every size field reached is between 0 and the length of its container (and
\* no write fails) it succeeds and serializes exactly the declared count on
\* each axis.
C5_DeclaredCountEnforcedNonNegative ==
    EncodeReturned =>
        LET t == TravMembers(self, lcm_struct, 1, TRUE)
        IN  /\ t.bad => encRes = "Err"
            /\ (~t.bad /\ ~wfailed) =>
                   (encRes = "Ok" /\ out = Concat(t.leaves))

\* C5's case: encode succeeded on a container longer than its size field says
C5_Witness ==
    /\ encRes = "Ok"
    /\ \E i \in DOMAIN lcm_struct :
          /\ lcm_struct[i].dims # <<>>
          /\ lcm_struct[i].dims[1].mode = "LCM_VAR"
          /\ self.n = 1
          /\ Len(self[lcm_struct[i].name]) = 2

\* every variable axis holds exactly as many elements as its size field says
RECURSIVE ExactCounts(_, _, _, _)
ExactCounts(this, member, d, item) ==
    IF d > Len(member.dims) THEN TRUE
    ELSE /\ member.dims[d].mode = "LCM_VAR" =>
                this[member.dims[d].size] = Len(item)
         /\ \A i \in DOMAIN item : ExactCounts(this, member, d + 1, item[i])

\* every size field is declared before the members it sizes
DeclaredFirst ==
    \A i \in DOMAIN lcm_struct : \A d \in DOMAIN lcm_struct[i].dims :
        lcm_struct[i].dims[d].mode = "LCM_VAR" =>
            \E j \in 1..(i - 1) : lcm_struct[j].name = lcm_struct[i].dims[d].size

DecodeOfOutputEnded ==
    /\ encRes = "Ok"
    /\ \/ decRes = "NoBuild"
       \/ decRes \in {"Ok", "Err"} /\ input = out

\* C6: decode(encode(x)) = x for every instance x that encodes successfully.
\* Stated for the instances the claim can be asked of: each variable axis
\* holds exactly the declared count (encode drops nothing) and each size field
\* is declared before its array.
C6_RoundTrip ==
    (/\ DecodeOfOutputEnded
     /\ DeclaredFirst
     /\ \A i \in DOMAIN lcm_struct :
            ExactCounts(self, lcm_struct[i], 1, self[lcm_struct[i].name]))
        => (decRes = "Ok" /\ decVal = <<self>>)

\* C7: size(x) is the number of bytes encode(x) wrote, for every instance that
\* encodes successfully.
C7_SizeIsEncodedLength ==
    (encRes = "Ok" /\ sz # -1) => sz = Len(out)

\* position of the statement that decodes the member called `name`
StmtOf(name) ==
    CHOOSE k \in DOMAIN DecodeStmts : lcm_struct[DecodeStmts[k]].name = name

\* the size fields named by the variable dimensions of member i
SizeFieldsOf(i) ==
    {lcm_struct[i].dims[d].size :
        d \in {e \in DOMAIN lcm_struct[i].dims :
                  lcm_struct[i].dims[e].mode = "LCM_VAR"}}

DeclIndex(name) == CHOOSE j \in DOMAIN lcm_struct : lcm_struct[j].name = name

C9_DecodeFailureAborts ==
    /\ \A i \in DOMAIN rd.log :
           rd.log[i] = "fail" =>
               (i = Len(rd.log) /\ decRes = "Err" /\ pcD = 0)
    /\ decRes = "Err" => (rd.log # <<>> /\ rd.log[Len(rd.log)] = "fail")
    /\ decVal # <<>> => decRes = "Ok"
    /\ decRes \in {"Err", "NoBuild"} => decVal = <<>>

\* C9's case: decode() failed on a leaf inside a variable axis inside a
\* constant axis, after decoding earlier leaves
C9_Witness ==
    /\ decRes = "Err"
    /\ Len(rd.log) >= 4
    /\ \E i \in DOMAIN lcm_struct :
          /\ Len(lcm_struct[i].dims) = 2
          /\ lcm_struct[i].dims[2].mode = "LCM_VAR"

\* C10 as stated: when encode fails, no byte of the instance has been written
\* to the output stream.
C10_NoBytesOnFailure ==
    encRes = "Err" => out = <<>>

\* C10 as amended: when a size field is out of range or a write fails, encode
\* stops there and the caller receives an error; the leaves that precede the
\* failure in the traversal have been written to the output stream and stay
\* there (a truncated output), and nothing is written after the failure.
C10_FailureLeavesPrefix ==
    LET t == TravMembers(self, lcm_struct, 1, TRUE)
        FirstLeaves(j) == Concat(SubSeq(t.leaves, 1, j))
    IN  /\ wfailed => encRes = "Err"
        /\ encRes = "Ok" => ~t.bad
        /\ encRes = "Err" =>
              /\ pcE = 0
              /\ \E j \in 0..Len(t.leaves) :
                    /\ out = FirstLeaves(j)
                    /\ wfailed => j < Len(t.leaves)
                    /\ ~wfailed => (j = Len(t.leaves) /\ t.bad)

\* C10's case: encode failed on a size field after writing an earlier member
C10_Witness ==
    /\ encRes = "Err"
    /\ ~wfailed
    /\ out # <<>>

\* ---- C11 ----

\* index tuples of the elements a member's declared dimensions span, from
\* dimension d inwards: every element of a constant axis, the first
\* this[size] elements of a variable axis
RECURSIVE Idx(_, _, _, _)
Idx(this, member, d, item) ==
    IF d > Len(member.dims) THEN {<<>>}
    ELSE LET count == IF member.dims[d].mode = "LCM_VAR"
                      THEN this[member.dims[d].size]
                      ELSE Len(item)
         IN  UNION {{<<i>> \o t : t \in Idx(this, member, d + 1, item[i])} :
                      i \in 1..count}

\* leaf positions <<member index, i1, .., ik>> of the first m members
Positions(this, members, m) ==
    UNION {{<<i>> \o t :
              t \in Idx(this, members[i], 1, this[members[i].name])} :
             i \in 1..m}

RECURSIVE ElemAt(_, _)
ElemAt(item, idx) ==
    IF idx = <<>> THEN item ELSE ElemAt(item[Head(idx)], Tail(idx))

\* lexicographic order: member order first, then outer index before inner
LexLess(p, q) ==
    \E k \in 1..(IF Len(p) < Len(q) THEN Len(p) ELSE Len(q)) :
        /\ p[k] < q[k]
        /\ \A j \in 1..(k - 1) : p[j] = q[j]

\* the positions of P in declared member order and row-major order
RowMajor(P) ==
    [k \in 1..Cardinality(P) |->
        CHOOSE p \in P : Cardinality({q \in P : LexLess(q, p)}) = k - 1]

\* the encodings of the leaves at the positions of the first m members, in
\* declared member order and row-major order
OrderedLeaves(this, members, m) ==
    LET ord == RowMajor(Positions(this, members, m))
    IN  [k \in DOMAIN ord |->
            LeafEncode(members[ord[k][1]].type,
                       ElemAt(this[members[ord[k][1]].name], Tail(ord[k])))]

\* the decoded members agree with the instance at every position of the
\* first m members
SameAtPositions(decoded, m) ==
    \A p \in Positions(self, lcm_struct, m) :
        ElemAt(decoded[lcm_struct[p[1]].name], Tail(p))
            = ElemAt(self[lcm_struct[p[1]].name], Tail(p))

\* C11: the encoder's output is the leaf encodings in declared member order,
\* within a member in row-major order, with nothing between them: while
\* encode() runs, of the members encoded so far, and when it returns Ok, of
\* all members.  The decoder run on that output reads the leaves in the same
\* order: after each member it has read as many leaves as the encoder wrote
\* up to that member and holds their values at the same positions, and when
\* it returns it has consumed the whole output.
C11_RowMajorOrder ==
    /\ (pcE \in 1..(Len(lcm_struct) + 1) /\ ~wfailed) =>
           out = Concat(OrderedLeaves(self, lcm_struct, pcE - 1))
    /\ encRes = "Ok" =>
           out = Concat(OrderedLeaves(self, lcm_struct, Len(lcm_struct)))
    /\ (encRes = "Ok" /\ input = out /\ pcD \in 1..(Len(lcm_struct) + 1)) =>
           /\ Len(rd.log) = Cardinality(Positions(self, lcm_struct, pcD - 1))
           /\ rd.inp = SubSeq(out,
                  Len(Concat(OrderedLeaves(self, lcm_struct, pcD - 1))) + 1,
                  Len(out))
           /\ SameAtPositions(env, pcD - 1)
    /\ (encRes = "Ok" /\ input = out /\ decRes \in {"Ok", "Err"}) =>
           /\ decRes = "Ok"
           /\ rd.inp = <<>>
           /\ Len(rd.log) = Cardinality(Positions(self, lcm_struct,
                                                   Len(lcm_struct)))
           /\ SameAtPositions(decVal[1], Len(lcm_struct))

\* C11's case: a two-dimensional member ([Vec<i16>; 2]) whose rows differ
\* and are not symmetric was encoded and decoded again
C11_Witness ==
    /\ encRes = "Ok" /\ decRes = "Ok" /\ input = out
    /\ Len(lcm_struct) = 2
    /\ Len(lcm_struct[2].dims) = 2
    /\ lcm_struct[2].dims[1].mode = "LCM_CONST"
    /\ self.n = 2
    /\ self.v = << <<-2, 258>>, <<-2, -2>> >>

-----------------------------------------------------------------------------
(* Claims about the generator *)

\* the letters, as <<lower case, upper case>>
LetterPairs == {<<"a", "A">>, <<"b", "B">>, <<"t", "T">>}

UpperCased(ch) ==
    IF \E l \in LetterPairs : l[1] = ch
    THEN (CHOOSE l \in LetterPairs : l[1] = ch)[2] ELSE ch

LowerCased(ch) ==
    IF \E l \in LetterPairs : l[2] = ch
    THEN (CHOOSE l \in LetterPairs : l[2] = ch)[1] ELSE ch

\* the identifier without a trailing "_t"
stripTypeSuffix(id) ==
    IF Len(id) >= 2 /\ id[Len(id) - 1] = "_" /\ id[Len(id)] = "t"
    THEN SubSeq(id, 1, Len(id) - 2) ELSE id

\* the underscore-separated segments of the identifier
RECURSIVE Segments(_)
Segments(id) ==
    IF \A k \in DOMAIN id : id[k] # "_" THEN <<id>>
    ELSE LET k == CHOOSE k \in DOMAIN id :
                      id[k] = "_" /\ \A j \in 1..(k - 1) : id[j] # "_"
         IN  <<SubSeq(id, 1, k - 1)>> \o Segments(SubSeq(id, k + 1, Len(id)))

Capitalized(seg) ==
    [i \in DOMAIN seg |->
        IF i = 1 THEN UpperCased(seg[i]) ELSE LowerCased(seg[i])]

toUpperCamel(id) ==
    LET segs == Segments(id)
    IN  Concat([k \in DOMAIN segs |-> Capitalized(segs[k])])

\* C12: the type name of an identifier is the concatenation, with no
\* separator, of the underscore-separated segments of the identifier without
\* its trailing "_t", each segment with its first character upper-cased and
\* its other characters lower-cased.
C12_TypeNameIsUpperCamel ==
    pcN = "done" => type_name = toUpperCamel(stripTypeSuffix(shortname))

\* C12's case: an identifier of two segments and a "_t" suffix was named
C12_Witness ==
    /\ pcN = "done"
    /\ shortname = <<"a", "B", "_", "1", "_", "t">>
    /\ type_name = <<"A", "b", "1">>

\* ---- C14 ----

\* one container per dimension from dimension k inwards, around the element
\* type: [<inner>; <size>] for a constant dimension, Vec<<inner>> for a
\* variable one
RECURSIVE Nested(_, _, _)
Nested(elem, dimensions, k) ==
    IF k > Len(dimensions) THEN elem
    ELSE IF dimensions[k].mode = "LCM_CONST"
         THEN <<"[">> \o Nested(elem, dimensions, k + 1)
                  \o <<";", " ">> \o dimensions[k].size \o <<"]">>
         ELSE <<"V", "e", "c", "<">> \o Nested(elem, dimensions, k + 1)
                  \o <<">">>

\* C14: the field emitted for a member is "pub <name>: <type>," where <type>
\* nests one container per dimension, the outermost dimension outermost: a
\* fixed-size container with the dimension's own size for a constant
\* dimension, a growable container for a variable one; with no dimensions it
\* is the bare mapped type.
C14_FieldTypeNesting ==
    pcF = "done" =>
        line = Indent1 \o <<"p", "u", "b", " ">> \o cur_member.membername
                   \o <<":", " ">>
                   \o Nested(map_type_name(cur_member.type),
                             cur_member.dimensions, 1)
                   \o <<",">>

\* C14's case: the field of "foo_t v[2][n]" was emitted
C14_Witness ==
    /\ pcF = "done"
    /\ cur_member.type = <<"f", "o", "o", "_", "t">>
    /\ cur_member.dimensions = <<LcmConst(<<"2">>), LcmVar(<<"n">>)>>
    /\ line = Indent1 \o <<"p", "u", "b", " ", "v", ":", " ", "[", "V", "e", "c", "<", "F", "o", "o", ">", ";", " ", "2", "]", ",">>

\* ---- C13 ----

IoFailed(k) == events[k].op \in {"fopen", "write"} /\ events[k].ok = "fail"

\* the file of struct i holds all of what emit_rust writes for that struct
CompletelyWritten(i) ==
    LET path == make_rust_file_name(gen_structs[i])
    IN  path \in DOMAIN fs /\ fs[path] = emit_struct_file(gen_structs[i])

\* C13: when an index file or a struct file cannot be opened or written,
\* emit_rust returns non-zero and emits no later artifact; when emit_rust
\* returns 0, the file of every struct of the schema is completely written.
C13_IoFailureIsFatal ==
    /\ \A k \in DOMAIN events :
          IoFailed(k) =>
              /\ ret # <<0>>
              /\ \A j \in (k + 1)..Len(events) :
                    events[j].op \notin {"fopen", "write"}
    /\ ret = <<0>> => \A i \in DOMAIN gen_structs : CompletelyWritten(i)

\* ---- C15 ----

\* the events k at which fopen returned a stream
Opened == {k \in DOMAIN events : events[k].op = "fopen" /\ events[k].ok = "ok"}

ClosedWithin(k, last) ==
    \E j \in (k + 1)..last :
        events[j].op = "fclose" /\ events[j].path = events[k].path

\* C15: at most one output file is open at a time; a file that was opened is
\* closed before the next file is opened and before emit_rust returns,
\* whether it returns 0 or an error.
C15_OneFileOpenAtATime ==
    /\ Len(open_files) <= 1
    /\ \A k, n \in Opened : k < n => ClosedWithin(k, n - 1)
    /\ ret # <<>> =>
          /\ open_files = <<>>
          /\ \A k \in Opened : ClosedWithin(k, Len(events))

\* C15's case: emit_rust returned an error after it had opened files
C15_Witness ==
    /\ ret = <<-1>>
    /\ Cardinality(Opened) >= 2
    /\ events[Len(events)].op = "fopen"
    /\ events[Len(events)].ok = "fail"

\* ---- C16 ----

\* the entries of the structs of a package, in schema order
RECURSIVE EntriesOf(_, _)
EntriesOf(pkg, i) ==
    IF i > Len(gen_structs) THEN <<>>
    ELSE (IF gen_structs[i].package = pkg
          THEN <<emit_pub_use(gen_structs[i])>> ELSE <<>>)
             \o EntriesOf(pkg, i + 1)

\* C16: after emit_rust returned 0, whatever the index files held before the
\* run, the index file of each package of the schema holds exactly the
\* entries of the structs of that package, one each, in schema order.
C16_IndexRebuilt ==
    ret = <<0>> =>
        \A i \in DOMAIN gen_structs :
            LET path == make_rust_mod_file_name(gen_structs[i])
            IN  /\ path \in DOMAIN fs
                /\ fs[path] = EntriesOf(gen_structs[i].package, 1)

=============================================================================
